---------------------------- MODULE Spec2Model ----------------------------
(***************************************************************************)
(* Model of the listing-optimization agent: the two identifier resolvers   *)
(* (keepa_client.extract_asin_from_input, scraper.extract_asin), the two   *)
(* listing adapters, the batch and single-item flows of ui.py and the      *)
(* export helpers.                                                         *)
(*                                                                         *)
(* A text is a sequence of atoms.  In identifiers every atom is one        *)
(* character; in generated or fetched texts an atom is an opaque piece of  *)
(* text; the texts of bullets are spelled character by character.  The     *)
(* empty text is << >> and concatenation is \o.                            *)
(***************************************************************************)
EXTENDS Integers, Sequences, FiniteSets, TLC

VARIABLES
    identifier,                \* argument handed to a resolver / adapter
    call,                      \* record of the last function call made
    manual_audit_output,       \* ui.py: gr.Markdown value
    manual_optimized_output,   \* ui.py: gr.Markdown value
    batch_output,              \* ui.py: gr.Markdown value
    ids_input,                 \* ui.py: gr.Textbox value, as its lines
    env,                       \* what the external services answer, per line
    ui,                        \* record of the last UI callback and its effects
    history,                   \* flows invoked so far, last single-item result
    process                    \* the process: its environment, how far startup got

vars == <<identifier, call, manual_audit_output, manual_optimized_output,
          batch_output, ids_input, env, ui, history, process>>

---------------------------------------------------------------------------
(* Bounds of the model *)

\* longest run of whitespace put before / after a resolver input
MaxPad == 1
\* most alphanumeric characters appended to a 10-character token
MaxExtra == 1
\* most lines of the batch text
MaxLines == 3

---------------------------------------------------------------------------
(* Characters *)

LowerSeq == <<"a","b","c","d","e","f","g","h","i","j","k","l","m",
              "n","o","p","q","r","s","t","u","v","w","x","y","z">>
UpperSeq == <<"A","B","C","D","E","F","G","H","I","J","K","L","M",
              "N","O","P","Q","R","S","T","U","V","W","X","Y","Z">>
LowerLetters == {LowerSeq[i] : i \in 1..26}
UpperLetters == {UpperSeq[i] : i \in 1..26}
Digits == {"0","1","2","3","4","5","6","7","8","9"}

\* U+017F LATIN SMALL LETTER LONG S: a non-ASCII letter whose case-insensitive
\* counterpart is the ASCII letter s (str.upper() gives "S")
LongS == "U+017F"

\* characters removed by str.strip()
Whitespace == {" ", "\t"}

\* the character class [A-Za-z0-9] (equally [A-Z0-9] plus [a-z]), matched
\* case-sensitively
IsAsciiAlnum(c) == c \in Digits \cup UpperLetters \cup LowerLetters

\* the same class under re.IGNORECASE on a str pattern: a character also
\* matches when one of its case variants is in the class
IsAlnumIgnoreCase(c) == IsAsciiAlnum(c) \/ c = LongS

\* str.upper() on one character
ToUpper(c) ==
    IF c \in LowerLetters
    THEN UpperSeq[CHOOSE i \in 1..26 : LowerSeq[i] = c]
    ELSE IF c = LongS THEN "S" ELSE c

\* str.lower() on one character
ToLower(c) ==
    IF c \in UpperLetters
    THEN LowerSeq[CHOOSE i \in 1..26 : UpperSeq[i] = c]
    ELSE c

upper(s) == [i \in 1..Len(s) |-> ToUpper(s[i])]

\* the element of a one-element set.  The({e(x) : x \in {v}}) is e(v) with v
\* computed once, as a local variable of the source is
The(S) == CHOOSE y \in S : TRUE

Min(S) == CHOOSE i \in S : \A j \in S : i <= j
Max(S) == CHOOSE i \in S : \A j \in S : j <= i

\* str.strip(): drop leading and trailing whitespace
strip(s) ==
    The({IF keep = {} THEN << >>
                       ELSE SubSeq(s, Min(keep), Max(keep))
         : keep \in {{i \in 1..Len(s) : s[i] \notin Whitespace}}})

---------------------------------------------------------------------------
(* Regular expressions of the resolvers *)

\* Python's None as a resolver result (no identifier has length 1)
None == <<"None">>

\* length of an ASIN: the {10} of every pattern
AsinLen == 10

DP == <<"/","d","p","/">>
GP_PRODUCT == <<"/","g","p","/","p","r","o","d","u","c","t","/">>

\* a literal of a pattern matches at position i, ignoring case
LiteralAt(s, i, lit) ==
    /\ i + Len(lit) - 1 <= Len(s)
    /\ \A j \in 1..Len(lit) : ToLower(s[i + j - 1]) = lit[j]

\* [A-Za-z0-9]{10} under IGNORECASE matches the 10 characters from i on
ClassRunAt(s, i) ==
    /\ i + AsinLen - 1 <= Len(s)
    /\ \A j \in i..(i + AsinLen - 1) : IsAlnumIgnoreCase(s[j])

\* positions where  <lit>([A-Za-z0-9]{10})  matches, flags=re.IGNORECASE
MatchStarts(s, lit) ==
    {i \in 1..Len(s) : LiteralAt(s, i, lit) /\ ClassRunAt(s, i + Len(lit))}

\* group 1 of the match at position i of  <lit>([A-Za-z0-9]{10})
Group(s, i, lit) == SubSeq(s, i + Len(lit), i + Len(lit) + AsinLen - 1)

\* re.fullmatch(r"[A-Za-z0-9]{10}", s): no flags
FullMatchAsin(s) ==
    Len(s) = AsinLen /\ \A j \in 1..Len(s) : IsAsciiAlnum(s[j])

\* re.fullmatch(r"[A-Z0-9]{10}", s, flags=re.IGNORECASE)
FullMatchAsinIgnoreCase(s) ==
    Len(s) = AsinLen /\ \A j \in 1..Len(s) : IsAlnumIgnoreCase(s[j])

---------------------------------------------------------------------------
(* The two resolvers *)

\* the search of the URL patterns of keepa_client: /dp/ first, /gp/product/
\* only when /dp/ matches nowhere
SearchDpThenGp(ident) ==
    The({IF dp # {} THEN upper(Group(ident, Min(dp), DP))
            ELSE The({IF gp # {} THEN upper(Group(ident, Min(gp), GP_PRODUCT))
                         ELSE None
                      : gp \in {MatchStarts(ident, GP_PRODUCT)}})
         : dp \in {MatchStarts(ident, DP)}})

\* keepa_client.extract_asin_from_input
extract_asin_from_input(idt) ==
    The({IF FullMatchAsin(ident) THEN upper(ident)
            ELSE SearchDpThenGp(ident)
         : ident \in {strip(idt)}})

\* the search of the one URL pattern of scraper, /(dp|gp/product)/(...): the
\* leftmost position where either alternative matches
SearchDpOrGp(ident) ==
    The({IF m[1] \cup m[2] = {} THEN None
            ELSE IF Min(m[1] \cup m[2]) \in m[1]
            THEN upper(Group(ident, Min(m[1] \cup m[2]), DP))
            ELSE upper(Group(ident, Min(m[1] \cup m[2]), GP_PRODUCT))
         : m \in {<<MatchStarts(ident, DP), MatchStarts(ident, GP_PRODUCT)>>}})

\* extract_asin with the strip() of its first line left out
extract_asin_without_strip(idt) ==
    IF FullMatchAsinIgnoreCase(idt) THEN upper(idt) ELSE SearchDpOrGp(idt)

\* scraper.extract_asin
extract_asin(idt) ==
    The({IF FullMatchAsinIgnoreCase(ident) THEN upper(ident)
            ELSE SearchDpOrGp(ident)
         : ident \in {strip(idt)}})

---------------------------------------------------------------------------
(* Text helpers *)

\* sep.join(parts)
RECURSIVE Join(_, _)
Join(sep, parts) ==
    IF parts = << >> THEN << >>
    ELSE IF Len(parts) = 1 THEN parts[1]
    ELSE parts[1] \o sep \o Join(sep, Tail(parts))

\* "\n".join(f"- {b}" for b in bullets_list), bullets_list being a list of
\* texts
BulletsText(bullets_list) ==
    Join(<<"\n">>, [i \in 1..Len(bullets_list) |-> <<"-", " ">> \o bullets_list[i]])

\* the same expression when bullets_list is a str: the iteration is over its
\* characters
BulletsTextOfStr(bullets_str) ==
    Join(<<"\n">>, [i \in 1..Len(bullets_str) |-> <<"-", " ", bullets_str[i]>>])

---------------------------------------------------------------------------
(* The structured-data adapter: keepa_client.get_listing_from_keepa *)

\* GetOr giving every field only when the product has a title
GetOrTitleFirst(product, key) ==
    IF "title" \in product.has THEN product[key] ELSE << >>

\* dict.get(key) or default: a missing key, None and an empty value all give
\* the default; the defaults "" and [] are both the empty sequence
GetOr(product, key) ==
    IF key \in product.has THEN product[key] ELSE << >>

\* outcome of a call that returned v / that raised with message m
Returned(v) == [raised |-> FALSE, value |-> v]
Raised(m) == [raised |-> TRUE, exc |-> m]

ApiQuery(asin) == <<[fn |-> "api.query", asin |-> asin, domain |-> "US"]>>

\* get_listing_from_keepa without its check of the resolved identifier
get_listing_from_keepa_unchecked(idt, q) ==
    The({IF q.raises
            THEN [out |-> Raised(q.exc), calls |-> ApiQuery(asin)]
            ELSE IF q.products = << >>
            THEN [out |-> Raised(<<"Keepa returned no product for ASIN ">> \o asin),
                  calls |-> ApiQuery(asin)]
            ELSE [out |-> Returned([asin |-> asin,
                                    title |-> GetOr(q.products[1], "title"),
                                    bullets |-> GetOr(q.products[1], "features"),
                                    description |-> GetOr(q.products[1], "description")]),
                  calls |-> ApiQuery(asin)]
         : asin \in {extract_asin_from_input(idt)}})

\* get_listing_from_keepa(identifier) when api.query would answer q:
\* q.raises with message q.exc, or the list q.products.
\* calls: the calls made to the external service, in order
get_listing_from_keepa(idt, q) ==
    The({IF asin = None \/ asin = << >>
            THEN [out |-> Raised(<<"Could not find a valid ASIN in: ">> \o idt),
                  calls |-> << >>]
            ELSE IF q.raises
            THEN [out |-> Raised(q.exc), calls |-> ApiQuery(asin)]
            ELSE IF q.products = << >>
            THEN [out |-> Raised(<<"Keepa returned no product for ASIN ">> \o asin),
                  calls |-> ApiQuery(asin)]
            ELSE [out |-> Returned([asin |-> asin,
                                    title |-> GetOr(q.products[1], "title"),
                                    bullets |-> GetOr(q.products[1], "features"),
                                    description |-> GetOr(q.products[1], "description")]),
                  calls |-> ApiQuery(asin)]
         : asin \in {extract_asin_from_input(idt)}})

---------------------------------------------------------------------------
(* The HTML-scraping adapter: scraper.fetch_listing_by_asin, fetch_listing *)

\* text of an element the page may hold: soup.select_one(sel), then
\* get_text(strip=True) if the element is there, else ""
TextOf(page, sel) == IF sel \in page.has THEN page[sel] ELSE << >>

\* the bullet text holds the expansion-UI artifact (compared in lower case)
CLICK_TO_OPEN == "click to open expanded"
HasArtifact(txt) == \E i \in 1..Len(txt) : txt[i] = CLICK_TO_OPEN

\* bullets_list: the non-empty span texts without the artifact, in page order
RECURSIVE BulletsList(_)
BulletsList(spans) ==
    IF spans = << >> THEN << >>
    ELSE IF spans[1] # << >> /\ ~HasArtifact(spans[1])
         THEN <<spans[1]>> \o BulletsList(Tail(spans))
         ELSE BulletsList(Tail(spans))

UrlOf(asin) == <<"https://www.amazon.com/dp/">> \o asin

RequestsGet(asin) ==
    <<[fn |-> "requests.get", url |-> UrlOf(asin), timeout |-> "15"]>>

\* desc: #productDescription, else #bookDescription_feature_div, else ""
DescOf(page) ==
    IF TextOf(page, "productDescription") # << >>
    THEN TextOf(page, "productDescription")
    ELSE TextOf(page, "bookDescription_feature_div")

\* fetch_listing_by_asin parsing the body whatever the status
fetch_listing_by_asin_parsing(asin, resp) ==
    IF resp.raises THEN [out |-> Raised(resp.exc), calls |-> RequestsGet(asin)]
    ELSE [out |-> Returned([asin |-> asin,
                            title |-> TextOf(resp.page, "productTitle"),
                            bullets |-> BulletsText(BulletsList(resp.page.spans)),
                            description |-> DescOf(resp.page),
                            error |-> IF resp.status_code # "200"
                                      THEN <<"HTTP ", resp.status_code,
                                             " when fetching ">> \o UrlOf(asin)
                                      ELSE << >>]),
          calls |-> RequestsGet(asin)]

\* fetch_listing_by_asin(asin) when requests.get answers resp: resp.raises with
\* message resp.exc, or a response with resp.status_code and the page resp.page
fetch_listing_by_asin(asin, resp) ==
    IF resp.raises THEN [out |-> Raised(resp.exc), calls |-> RequestsGet(asin)]
    ELSE IF resp.status_code # "200"
    THEN [out |-> Returned([asin |-> asin, title |-> << >>, bullets |-> << >>,
                            description |-> << >>,
                            error |-> <<"HTTP ", resp.status_code,
                                        " when fetching ">> \o UrlOf(asin)]),
          calls |-> RequestsGet(asin)]
    ELSE [out |-> Returned([asin |-> asin,
                            title |-> TextOf(resp.page, "productTitle"),
                            bullets |-> BulletsText(BulletsList(resp.page.spans)),
                            description |-> DescOf(resp.page),
                            error |-> << >>]),
          calls |-> RequestsGet(asin)]

\* fetch_listing reporting no error for an input with no identifier
fetch_listing_silent(idt, resp) ==
    The({IF asin = None \/ asin = << >>
            THEN [out |-> Returned([asin |-> << >>, title |-> << >>,
                                    bullets |-> << >>, description |-> << >>,
                                    error |-> << >>]),
                  calls |-> << >>]
            ELSE fetch_listing_by_asin(asin, resp)
         : asin \in {extract_asin(idt)}})

\* fetch_listing
fetch_listing(idt, resp) ==
    The({IF asin = None \/ asin = << >>
            THEN [out |-> Returned([asin |-> << >>, title |-> << >>,
                                    bullets |-> << >>, description |-> << >>,
                                    error |-> <<"Could not extract ASIN from: ">>
                                                  \o idt]),
                  calls |-> << >>]
            ELSE fetch_listing_by_asin(asin, resp)
         : asin \in {extract_asin(idt)}})

---------------------------------------------------------------------------
(* The generation calls: agent.audit_listing and agent.rewrite_listing.    *)
(* Each makes one request to the generation service and returns its        *)
(* completion; g is what the service answers: a text, or an error.         *)

audit_listing(title, bullets, description, reviews, target_keywords, g) ==
    [out |-> IF g.raises THEN Raised(g.exc) ELSE Returned(g.text),
     calls |-> <<[fn |-> "audit_listing", title |-> title, bullets |-> bullets,
                  description |-> description, reviews |-> reviews,
                  target_keywords |-> target_keywords]>>]

rewrite_listing(title, bullets, description, reviews, target_keywords, category, audience, audit_summary, g) ==
    [out |-> IF g.raises THEN Raised(g.exc) ELSE Returned(g.text),
     calls |-> <<[fn |-> "rewrite_listing", title |-> title, bullets |-> bullets,
                  description |-> description, reviews |-> reviews,
                  target_keywords |-> target_keywords, category |-> category,
                  audience |-> audience, audit_summary |-> audit_summary]>>]

---------------------------------------------------------------------------
(* ui.py: the single-item and the batch flow *)

\* x or default
Or(x, default) == IF x = << >> THEN default ELSE x

\* optimize_manual_ui handing no audit summary to rewrite_listing
optimize_manual_ui_without_summary(title, bullets, description, reviews, target_keywords, category, audience, g) ==
    The({IF a.out.raised THEN [out |-> a.out, calls |-> a.calls]
            ELSE The({IF r.out.raised
                         THEN [out |-> r.out, calls |-> a.calls \o r.calls]
                         ELSE [out |-> Returned(<<a.out.value, r.out.value>>),
                               calls |-> a.calls \o r.calls]
                      : r \in {rewrite_listing(title, bullets, description, reviews,
                              target_keywords, category, audience,
                              << >>, g.rewrite)}})
         : a \in {audit_listing(title, bullets, description, reviews, target_keywords,
                 g.audit)}})

\* optimize_manual_ui: audit, then rewrite with the audit as audit_summary;
\* an error of either call propagates
optimize_manual_ui(title, bullets, description, reviews, target_keywords, category, audience, g) ==
    The({IF a.out.raised THEN [out |-> a.out, calls |-> a.calls]
            ELSE The({IF r.out.raised
                         THEN [out |-> r.out, calls |-> a.calls \o r.calls]
                         ELSE [out |-> Returned(<<a.out.value, r.out.value>>),
                               calls |-> a.calls \o r.calls]
                      : r \in {rewrite_listing(title, bullets, description, reviews,
                              target_keywords, category, audience,
                              a.out.value, g.rewrite)}})
         : a \in {audit_listing(title, bullets, description, reviews, target_keywords,
                 g.audit)}})

\* [x] stands for the cross-mark emoji of the source, BACKTICK for the
\* backquote character
ERROR_MARKER == "\n\n[x] Error fetching from Keepa: "
BACKTICK == "<backtick>"
AUDIT_HEADING == "\n\n---\n\n### AI Audit\n"
OPTIMIZED_HEADING == "\n\n---\n\n### Optimized Listing\n"

\* the block appended when get_listing_from_keepa raised e for a line
ErrorBlock(line, e) ==
    <<"## ">> \o line \o <<ERROR_MARKER, BACKTICK>> \o e
        \o <<BACKTICK, "\n\n---\n">>

\* the block of a processed line, after block.strip()
SuccessBlock(line, listing, bullets_text, audit_text, optimized_text) ==
    <<"## ">> \o line \o <<"  _(ASIN: ">> \o listing.asin
        \o <<")_\n\n### Original Title\n">>
        \o Or(listing.title, <<"_(no title found)_">>)
        \o <<"\n\n### Original Bullets\n">>
        \o Or(bullets_text, <<"_(no bullets found)_">>)
        \o <<"\n\n### Original Description\n">>
        \o Or(listing.description, <<"_(no description found)_">>)
        \o <<AUDIT_HEADING>> \o audit_text
        \o <<OPTIMIZED_HEADING>> \o optimized_text
        \o <<"\n\n---">>

\* [line.strip() for line in identifiers_text.splitlines() if line.strip()]
\* with the index each kept line has in the text
RECURSIVE KeptLines(_, _)
KeptLines(text, i) ==
    IF i > Len(text) THEN << >>
    ELSE IF strip(text[i]) = << >> THEN KeptLines(text, i + 1)
    ELSE <<[line |-> strip(text[i]), at |-> i]>> \o KeptLines(text, i + 1)

NO_IDENTIFIERS == <<"No ASINs or URLs provided. Please add one per line.">>

\* GenerateBlock with the generation calls inside a try of their own: an
\* error block is appended when one of them raises
GenerateBlockIsolated(line, listing, bullets_text, fcalls, w, target_keywords, category, audience) ==
    The({IF a.out.raised
            THEN [out |-> Returned(<<ErrorBlock(line, a.out.exc)>>),
                  calls |-> fcalls \o a.calls]
            ELSE The({IF r.out.raised
                         THEN [out |-> Returned(<<ErrorBlock(line, r.out.exc)>>),
                               calls |-> fcalls \o a.calls \o r.calls]
                         ELSE [out |-> Returned(<<SuccessBlock(line, listing,
                                                               bullets_text,
                                                               a.out.value,
                                                               r.out.value)>>),
                               calls |-> fcalls \o a.calls \o r.calls]
                      : r \in {rewrite_listing(listing.title, bullets_text,
                              listing.description, << >>, target_keywords,
                              category, audience, a.out.value, w.rewrite)}})
         : a \in {audit_listing(listing.title, bullets_text, listing.description, << >>,
                 target_keywords, w.audit)}})

\* the rest of the loop body for a fetched listing: audit, rewrite, block
GenerateBlock(line, listing, bullets_text, fcalls, w, target_keywords, category, audience) ==
    The({IF a.out.raised THEN [out |-> a.out, calls |-> fcalls \o a.calls]
            ELSE The({IF r.out.raised
                         THEN [out |-> r.out, calls |-> fcalls \o a.calls \o r.calls]
                         ELSE [out |-> Returned(<<SuccessBlock(line, listing,
                                                               bullets_text,
                                                               a.out.value,
                                                               r.out.value)>>),
                               calls |-> fcalls \o a.calls \o r.calls]
                      : r \in {rewrite_listing(listing.title, bullets_text,
                              listing.description, << >>, target_keywords,
                              category, audience, a.out.value, w.rewrite)}})
         : a \in {audit_listing(listing.title, bullets_text, listing.description, << >>,
                 target_keywords, w.audit)}})

\* LoopBody without the try around get_listing_from_keepa: its error leaves
\* the loop
LoopBodyFetchUncaught(line, w, target_keywords, category, audience) ==
    The({IF f.out.raised
            THEN [out |-> f.out, calls |-> f.calls]
            ELSE The({GenerateBlock(line, f.out.value, bullets_text, f.calls, w,
                                       target_keywords, category, audience)
                      : bullets_text \in {BulletsText(f.out.value.bullets)}})
         : f \in {get_listing_from_keepa(line, w.query)}})

\* the body of the for loop of optimize_from_identifiers_ui for one line, when
\* the services answer w: the block appended (none when a generation call
\* raised, which ends the loop) and the external calls made
LoopBody(line, w, target_keywords, category, audience) ==
    The({IF f.out.raised
            THEN [out |-> Returned(<<ErrorBlock(line, f.out.exc)>>),
                  calls |-> f.calls]
            ELSE The({GenerateBlock(line, f.out.value, bullets_text, f.calls, w,
                                       target_keywords, category, audience)
                      : bullets_text \in {BulletsText(f.out.value.bullets)}})
         : f \in {get_listing_from_keepa(line, w.query)}})

\* the same loop body with fetch_listing in the place of
\* get_listing_from_keepa, when requests.get answers resp: the record's bullets
\* are the str built by fetch_listing_by_asin
LoopBodyWithScraper(line, resp, w, target_keywords, category, audience) ==
    The({IF f.out.raised
            THEN [out |-> Returned(<<ErrorBlock(line, f.out.exc)>>),
                  calls |-> f.calls]
            ELSE The({GenerateBlock(line, f.out.value, bullets_text, f.calls, w,
                                       target_keywords, category, audience)
                      : bullets_text \in {BulletsTextOfStr(f.out.value.bullets)}})
         : f \in {fetch_listing(line, resp)}})

\* the for loop from kept line k on, with the blocks and the external calls so
\* far; e[i] is what the services answer for line i of the text
RECURSIVE BatchLoop(_, _, _, _, _, _, _, _)
BatchLoop(kept, k, results, calls, target_keywords, category, audience, e) ==
    IF k > Len(kept)
    THEN [out |-> Returned(Join(<<"\n\n">>, results)), results |-> results,
          calls |-> calls]
    ELSE The({IF body.out.raised
                 THEN [out |-> body.out, results |-> results,
                       calls |-> calls \o body.calls]
                 ELSE BatchLoop(kept, k + 1, results \o body.out.value,
                                calls \o body.calls, target_keywords, category,
                                audience, e)
              : body \in {LoopBody(kept[k].line, e[kept[k].at], target_keywords, category,
                         audience)}})

\* optimize_from_identifiers_ui
optimize_from_identifiers_ui(identifiers_text, target_keywords, category, audience, e) ==
    The({IF kept = << >>
            THEN [out |-> Returned(NO_IDENTIFIERS), results |-> << >>,
                  calls |-> << >>]
            ELSE BatchLoop(kept, 1, << >>, << >>, target_keywords, category,
                           audience, e)
         : kept \in {KeptLines(identifiers_text, 1)}})

---------------------------------------------------------------------------
(* ui.py: the export helpers.  ts is datetime.now().strftime(...) *)

FileOf(prefix, ts, content) ==
    [name |-> <<prefix, ts, ".txt">>, content |-> content]

AUDIT_SECTION == "=== AUDIT ==="
OPTIMIZED_SECTION == "=== OPTIMIZED LISTING ==="

\* export_manual_result with the two texts written in the other order
export_manual_result_swapped(audit_text, optimized_text, ts) ==
    IF audit_text = << >> /\ optimized_text = << >>
    THEN [out |-> Raised(<<"No results to export. Run an optimization first.">>),
          written |-> << >>]
    ELSE LET file == FileOf("listing_manual_", ts,
                            <<AUDIT_SECTION, "\n\n">> \o optimized_text
                                \o <<"\n\n", OPTIMIZED_SECTION, "\n\n">>
                                \o audit_text \o <<"\n">>)
         IN  [out |-> Returned(file.name), written |-> <<file>>]

\* export_manual_result
export_manual_result(audit_text, optimized_text, ts) ==
    IF audit_text = << >> /\ optimized_text = << >>
    THEN [out |-> Raised(<<"No results to export. Run an optimization first.">>),
          written |-> << >>]
    ELSE LET file == FileOf("listing_manual_", ts,
                            <<AUDIT_SECTION, "\n\n">> \o audit_text
                                \o <<"\n\n", OPTIMIZED_SECTION, "\n\n">>
                                \o optimized_text \o <<"\n">>)
         IN  [out |-> Returned(file.name), written |-> <<file>>]

\* export_batch_result
export_batch_result(batch_markdown, ts) ==
    IF batch_markdown = << >>
    THEN [out |-> Raised(<<"No batch results to export. Run a batch optimization first.">>),
          written |-> << >>]
    ELSE LET file == FileOf("listing_batch_", ts, batch_markdown)
         IN  [out |-> Returned(file.name), written |-> <<file>>]

---------------------------------------------------------------------------
(* Inputs of the resolvers *)

\* runs of whitespace of length 0..MaxPad
RECURSIVE Pads(_)
Pads(n) ==
    IF n = 0 THEN {<< >>}
    ELSE Pads(n - 1) \cup {p \o <<w>> : p \in {q \in Pads(n - 1) : Len(q) = n - 1},
                                        w \in Whitespace}

\* 10-character tokens: upper case, lower case, mixed, one with a non-ASCII
\* letter, one with a character that is no letter or digit
Tokens ==
    { <<"B","0","D","J","3","3","Z","F","J","H">>,
      <<"b","0","d","j","3","3","z","f","j","h">>,
      <<"0","1","2","3","4","5","6","7","8","9">>,
      <<"a","B","c","D","e","F","g","H","i","J">>,
      <<LongS,"0","d","j","3","3","z","f","j","h">>,
      <<"B","0","D","J","-","3","Z","F","J","H">> }

\* 0..n further alphanumeric characters
RECURSIVE Extras(_)
Extras(n) ==
    IF n = 0 THEN {<< >>}
    ELSE Extras(n - 1) \cup {e \o <<c>> : e \in {x \in Extras(n - 1) : Len(x) = n - 1},
                                          c \in {"1", "x"}}

\* a token, a token cut to 9 characters, a token followed by more characters
Runs ==
    {SubSeq(t, 1, AsinLen - 1) : t \in Tokens}
        \cup {t \o e : t \in Tokens, e \in Extras(MaxExtra)}

\* path markers in several letter cases, and one that is no marker
Markers ==
    { DP,
      <<"/","D","P","/">>,
      GP_PRODUCT,
      <<"/","G","p","/","P","r","o","d","u","c","t","/">>,
      <<"/","d","q","/">> }

Prefixes == { << >>, <<"h","t","t","p","s",":","/","/","a",".","c","o">> }
Suffixes == { << >>, <<"/","r","e","f">>, <<"?","t","h","=","1">> }

NOT_AN_ASIN == <<"n","o","t","-","a","n","-","a","s","i","n">>

\* bare inputs: nothing, a text with no identifier, a single run
BareBodies == {<< >>, NOT_AN_ASIN} \cup Runs

\* URLs with one marker, and inputs with two markers
OneMarkerBodies ==
    {p \o m \o r \o x : p \in Prefixes, m \in Markers, r \in Runs, x \in Suffixes}
TwoMarkerBodies ==
    {m1 \o t1 \o m2 \o t2 : m1 \in Markers, t1 \in Tokens,
                            m2 \in Markers, t2 \in Tokens}

Inputs ==
    {a \o b \o c : a \in Pads(MaxPad), b \in BareBodies, c \in Pads(MaxPad)}
        \cup {a \o b \o a : a \in {<< >>, <<" ">>}, b \in OneMarkerBodies}
        \cup TwoMarkerBodies

---------------------------------------------------------------------------
(* Inputs of the flows and answers of the external services *)

\* a padded lower-case identifier, a line with no identifier, a blank line
ASIN_LINE == <<" ","b","0","d","j","3","3","z","f","j","h">>
BLANK_LINE == <<" ">>
RawLines == {ASIN_LINE, NOT_AN_ASIN, BLANK_LINE}

ProductKeys == {"title", "features", "description"}

\* a product of the catalog service holding the keys of h
Product(h) ==
    [has |-> h, title |-> <<"T1">>, features |-> << <<"b", "1">>, <<"b", "2">> >>,
     description |-> <<"D1">>]

QueryRaises == [raises |-> TRUE, exc |-> <<"keepa timeout">>, products |-> << >>]
QueryFinds(products) == [raises |-> FALSE, exc |-> << >>, products |-> products]

\* api.query raises, finds nothing, or finds one product with some of its keys
QueryAnswers ==
    {QueryRaises, QueryFinds(<< >>)}
        \cup {QueryFinds(<<Product(h)>>) : h \in SUBSET ProductKeys}

GenRaises == [raises |-> TRUE, exc |-> <<"generation error">>, text |-> << >>]
GenAnswers(t) == [raises |-> FALSE, exc |-> << >>, text |-> t]

\* what the services answer for one line: the catalog query, the audit call
\* and the rewrite call
World(q, a, r) == [query |-> q, audit |-> a, rewrite |-> r]

AllGood == World(QueryFinds(<<Product(ProductKeys)>>),
                 GenAnswers(<<"A1">>), GenAnswers(<<"R1">>))

\* the answers that make a difference for a line: none when the line is never
\* looked up, none of the generation service when the lookup fails, none of the
\* rewrite call when the audit call fails
LineWorlds(line) ==
    IF extract_asin_from_input(line) = None THEN {AllGood}
    ELSE {World(q, AllGood.audit, AllGood.rewrite) :
            q \in {QueryRaises, QueryFinds(<< >>)}}
         \cup {World(QueryFinds(<<Product(h)>>), a, r) :
                 h \in {ProductKeys, {}},
                 a \in {AllGood.audit},
                 r \in {AllGood.rewrite, GenRaises}}
         \cup {World(QueryFinds(<<Product(h)>>), GenRaises, AllGood.rewrite) :
                 h \in {ProductKeys, {}}}

\* batch texts of up to n lines with the answers of the services for each line
RECURSIVE Batches(_)
Batches(n) ==
    IF n = 0 THEN {[text |-> << >>, env |-> << >>]}
    ELSE Batches(n - 1) \cup
         UNION {{[text |-> Append(b.text, l), env |-> Append(b.env, w)] :
                    w \in LineWorlds(l)} :
                b \in {x \in Batches(n - 1) : Len(x.text) = n - 1},
                l \in RawLines}

\* the answers for a line that tell the outcomes of the generation calls
\* apart: both answer, with one text or another, the audit raises, the rewrite
\* raises
FlowWorlds(line) ==
    IF extract_asin_from_input(line) = None THEN {AllGood}
    ELSE {AllGood,
          World(AllGood.query, GenAnswers(<<"A2">>), GenAnswers(<<"R2">>)),
          World(AllGood.query, GenRaises, AllGood.rewrite),
          World(AllGood.query, AllGood.audit, GenRaises)}

\* batch texts of up to n lines, none blank, with such answers for each line
FlowLines == {ASIN_LINE, NOT_AN_ASIN}

RECURSIVE FlowBatches(_)
FlowBatches(n) ==
    IF n = 0 THEN {[text |-> << >>, env |-> << >>]}
    ELSE FlowBatches(n - 1) \cup
         UNION {{[text |-> Append(b.text, l), env |-> Append(b.env, w)] :
                    w \in FlowWorlds(l)} :
                b \in {x \in FlowBatches(n - 1) : Len(x.text) = n - 1},
                l \in FlowLines}

\* the form of the single-item flow
TITLE == <<"title">>
BULLETS == <<"bullets">>
DESCRIPTION == <<"description">>
REVIEWS == <<"reviews">>
KEYWORDS == <<"keywords">>
CATEGORY == <<"category">>
AUDIENCE == <<"audience">>

\* answers of the generation service to a single-item run: a completion may
\* be empty
ManualAnswers ==
    {[audit |-> a, rewrite |-> r] :
        a \in {GenRaises, GenAnswers(<< >>), GenAnswers(<<"A1">>)},
        r \in {GenRaises, GenAnswers(<< >>), GenAnswers(<<"R1">>)}}

\* datetime.now().strftime("%Y%m%d-%H%M%S")
Timestamps == {"20260101-120000", "20260101-120001"}

---------------------------------------------------------------------------
(* State *)

NoCall == [fn |-> "none", arg |-> << >>, ret |-> << >>]

\* values of the UI components when the page is built
AUDIT_PLACEHOLDER == <<"Run an optimization to see the AI audit here.">>
OPTIMIZED_PLACEHOLDER == <<"Run an optimization to see the improved copy here.">>
BATCH_PLACEHOLDER == <<"Results for each ASIN will appear here as sections.">>

NoCallback ==
    [fn |-> "none", out |-> Returned(<< >>), results |-> << >>, calls |-> << >>,
     written |-> << >>]

NoRun == << >>

\* the two credentials, and the values a variable can have: not set (os.getenv
\* gives None), set to the empty string, set to a key
CredentialKeys == {"OPENAI_API_KEY", "KEEPA_API_KEY"}
KeyValues == {None, << >>, <<"key">>}
Environments == [CredentialKeys -> KeyValues]

\* load_dotenv(): a variable of the file .env is added to os.environ unless
\* os.environ has the variable already
load_dotenv(environ, dotenv) ==
    [k \in CredentialKeys |-> IF environ[k] # None THEN environ[k] ELSE dotenv[k]]

\* `not value` testing the presence of None only
FalsyNoneOnly(value) == value = None

\* `not value` for the value of os.getenv: None or the empty string
Falsy(value) == value = None \/ value = << >>

OPENAI_MISSING ==
    <<"OPENAI_API_KEY is missing or empty. Check the Environment tab in Render.">>
KEEPA_MISSING == <<"KEEPA_API_KEY is not set in .env">>
KEEPA_REJECTED == <<"keepa.Keepa raised">>

\* a process that started with both credentials and serves the UI
Serving ==
    [pc |-> "serving", environ |-> [k \in CredentialKeys |-> <<"key">>],
     dotenv |-> [k \in CredentialKeys |-> None], error |-> << >>]

UiInit ==
    /\ process = Serving
    /\ manual_audit_output = AUDIT_PLACEHOLDER
    /\ manual_optimized_output = OPTIMIZED_PLACEHOLDER
    /\ batch_output = BATCH_PLACEHOLDER
    /\ ui = NoCallback
    /\ history = [invoked |-> {}, manual |-> NoRun]

UiVars == <<manual_audit_output, manual_optimized_output, batch_output, ui,
            history>>

---------------------------------------------------------------------------
(* Specification of the resolvers: an input is drawn, a resolver is applied *)

InitResolver ==
    /\ identifier \in Inputs
    /\ call = NoCall
    /\ ids_input = << >>
    /\ env = << >>
    /\ UiInit

CallExtractAsinFromInput ==
    /\ call' = [fn |-> "extract_asin_from_input", arg |-> identifier,
                ret |-> extract_asin_from_input(identifier)]
    /\ UNCHANGED <<process, identifier, ids_input, env, UiVars>>

CallExtractAsin ==
    /\ call' = [fn |-> "extract_asin", arg |-> identifier,
                ret |-> extract_asin(identifier)]
    /\ UNCHANGED <<process, identifier, ids_input, env, UiVars>>

NextResolver == CallExtractAsinFromInput \/ CallExtractAsin

SpecResolver == InitResolver /\ [][NextResolver]_vars

Resolved == call.fn \in {"extract_asin_from_input", "extract_asin"}

---------------------------------------------------------------------------
(* The UI callbacks, as wired to the buttons *)

\* manual_button.click: the outputs are set when the callback returns and
\* are left as they are when it raises
ManualClick ==
    \E g \in ManualAnswers :
        \E r \in {optimize_manual_ui(TITLE, BULLETS, DESCRIPTION, REVIEWS, KEYWORDS,
                                     CATEGORY, AUDIENCE, g)} :
            /\ process.pc = "serving"
            /\ ui' = [fn |-> "optimize_manual_ui", out |-> r.out,
                      results |-> << >>, calls |-> r.calls, written |-> << >>,
                      answers |-> g]
            /\ manual_audit_output' =
                   IF r.out.raised THEN manual_audit_output ELSE r.out.value[1]
            /\ manual_optimized_output' =
                   IF r.out.raised THEN manual_optimized_output ELSE r.out.value[2]
            /\ history' = [invoked |-> history.invoked \cup {"manual"},
                           manual |-> IF r.out.raised THEN history.manual
                                      ELSE <<r.out.value>>]
            /\ UNCHANGED <<process, identifier, call, batch_output, ids_input, env>>

\* batch_button.click
BatchClick ==
    \E r \in {optimize_from_identifiers_ui(ids_input, KEYWORDS, CATEGORY,
                                           AUDIENCE, env)} :
        /\ process.pc = "serving"
        /\ ui' = [fn |-> "optimize_from_identifiers_ui", out |-> r.out,
                  results |-> r.results, calls |-> r.calls, written |-> << >>]
        /\ batch_output' = IF r.out.raised THEN batch_output ELSE r.out.value
        /\ history' = [history EXCEPT !.invoked = @ \cup {"batch"}]
        /\ UNCHANGED <<process, identifier, call, manual_audit_output,
                       manual_optimized_output, ids_input, env>>

\* manual_export_button.click
ManualExportClick ==
    \E ts \in Timestamps :
        \E r \in {export_manual_result(manual_audit_output,
                                       manual_optimized_output, ts)} :
            /\ process.pc = "serving"
            /\ ui' = [fn |-> "export_manual_result", out |-> r.out,
                      results |-> << >>, calls |-> << >>, written |-> r.written]
            /\ UNCHANGED <<process, identifier, call, manual_audit_output,
                           manual_optimized_output, batch_output, ids_input, env,
                           history>>

\* batch_export_button.click
BatchExportClick ==
    \E ts \in Timestamps :
        \E r \in {export_batch_result(batch_output, ts)} :
            /\ process.pc = "serving"
            /\ ui' = [fn |-> "export_batch_result", out |-> r.out,
                      results |-> << >>, calls |-> << >>, written |-> r.written]
            /\ UNCHANGED <<process, identifier, call, manual_audit_output,
                           manual_optimized_output, batch_output, ids_input, env,
                           history>>

---------------------------------------------------------------------------
(* Specification of the batch flow: a text and the answers of the services *)
(* are drawn, the batch button is clicked                                   *)

InitBatch ==
    /\ identifier = << >>
    /\ call = NoCall
    /\ \E b \in Batches(MaxLines) : ids_input = b.text /\ env = b.env
    /\ UiInit

NextBatch == BatchClick

SpecBatch == InitBatch /\ [][NextBatch]_vars

---------------------------------------------------------------------------
(* Specification of a UI session: runs and exports in any order, over a     *)
(* batch text of one line                                                   *)

Init ==
    /\ identifier = << >>
    /\ call = NoCall
    /\ \E b \in Batches(1) : ids_input = b.text /\ env = b.env
    /\ UiInit

Next == ManualClick \/ BatchClick \/ ManualExportClick \/ BatchExportClick

Spec == Init /\ [][Next]_vars

---------------------------------------------------------------------------
(* Specification of the two flows: a batch text and the answers of the      *)
(* services are drawn; single-item runs and batch runs in any order         *)

InitFlows ==
    /\ identifier = << >>
    /\ call = NoCall
    /\ \E b \in FlowBatches(MaxLines) : ids_input = b.text /\ env = b.env
    /\ UiInit

NextFlows == ManualClick \/ BatchClick

SpecFlows == InitFlows /\ [][NextFlows]_vars

---------------------------------------------------------------------------
(* Specification of the adapters: an identifier is drawn, an adapter is     *)
(* called and the external service answers                                  *)

AdapterInputs ==
    {ASIN_LINE, NOT_AN_ASIN, << >>,
     <<"h","t","t","p","s",":","/","/","a",".","c","o">> \o DP
         \o <<"B","0","D","J","3","3","Z","F","J","H">>}

PageKeys == {"productTitle", "productDescription", "bookDescription_feature_div"}

\* a product page holding the elements of h and the given bullet spans
Page(h, spans) ==
    [has |-> h, spans |-> spans, productTitle |-> <<"T1">>,
     productDescription |-> <<"D1">>,
     bookDescription_feature_div |-> <<"D2">>]

SpanLists == {<< >>, << <<"b", "1">>, << >>, <<CLICK_TO_OPEN>>, <<"b", "2">> >>}

GetRaises == [raises |-> TRUE, exc |-> <<"read timeout">>, status_code |-> "",
              page |-> Page({}, << >>)]
GetAnswers(status, page) ==
    [raises |-> FALSE, exc |-> << >>, status_code |-> status, page |-> page]

\* requests.get raises, answers with an error status (and a body with or
\* without the elements of a product page), or answers with a page
Responses ==
    {GetRaises}
        \cup {GetAnswers(st, Page(h, sp)) : st \in {"404", "503"},
                                            h \in {{}, PageKeys}, sp \in SpanLists}
        \cup {GetAnswers("200", Page(h, sp)) : h \in SUBSET PageKeys, sp \in SpanLists}

InitAdapter ==
    /\ identifier \in AdapterInputs
    /\ call = NoCall
    /\ ids_input = << >>
    /\ env = << >>
    /\ UiInit

CallGetListingFromKeepa ==
    \E q \in QueryAnswers :
        \E r \in {get_listing_from_keepa(identifier, q)} :
            /\ call' = [fn |-> "get_listing_from_keepa", arg |-> identifier,
                        answer |-> q, out |-> r.out, calls |-> r.calls]
            /\ UNCHANGED <<process, identifier, ids_input, env, UiVars>>

CallFetchListing ==
    \E resp \in Responses :
        \E r \in {fetch_listing(identifier, resp)} :
            /\ call' = [fn |-> "fetch_listing", arg |-> identifier,
                        answer |-> resp, out |-> r.out, calls |-> r.calls]
            /\ UNCHANGED <<process, identifier, ids_input, env, UiVars>>

NextAdapter == CallGetListingFromKeepa \/ CallFetchListing

SpecAdapter == InitAdapter /\ [][NextAdapter]_vars

---------------------------------------------------------------------------
(* Specification of one line of the batch over either adapter: a line and   *)
(* an outcome of the upstream source are drawn, the loop body runs with     *)
(* get_listing_from_keepa or with fetch_listing                             *)

\* the lines the loop can see: trimmed and not empty
SubstituteLines ==
    ({strip(l) : l \in AdapterInputs} \ {<< >>})
        \cup {GP_PRODUCT \o <<"0","1","2","3","4","5","6","7","8","9">>}

UpstreamKeys == {"title", "bullets", "description"}
UPSTREAM_ERROR == <<"connection reset">>

\* what the source of the listing holds for the identifier: the request
\* fails, there is no such product, or a product with some of its fields
Upstreams ==
    {[kind |-> k, has |-> {}, bullets |-> << >>] : k \in {"raises", "missing"}}
        \cup {[kind |-> "found", has |-> h, bullets |-> b] :
                 h \in SUBSET UpstreamKeys,
                 b \in {<< <<"b", "1">> >>, << <<"b", "1">>, <<"b", "2">> >>}}

\* the answer of api.query for an upstream outcome
KeepaAnswer(u) ==
    IF u.kind = "raises"
    THEN [raises |-> TRUE, exc |-> UPSTREAM_ERROR, products |-> << >>]
    ELSE IF u.kind = "missing" THEN QueryFinds(<< >>)
    ELSE QueryFinds(<<[has |-> ((u.has \ {"bullets"}))
                                  \cup (IF "bullets" \in u.has THEN {"features"} ELSE {}),
                       title |-> <<"T1">>, features |-> u.bullets,
                       description |-> <<"D1">>]>>)

\* the answer of requests.get for the same outcome
PageAnswer(u) ==
    IF u.kind = "raises"
    THEN [raises |-> TRUE, exc |-> UPSTREAM_ERROR, status_code |-> "",
          page |-> Page({}, << >>)]
    ELSE IF u.kind = "missing" THEN GetAnswers("404", Page({}, << >>))
    ELSE GetAnswers("200",
             Page((IF "title" \in u.has THEN {"productTitle"} ELSE {})
                      \cup (IF "description" \in u.has
                            THEN {"productDescription"} ELSE {}),
                  IF "bullets" \in u.has THEN u.bullets ELSE << >>))

\* the answers for a line whose listing comes from u, the generation calls
\* answering
KeepaWorld(u) == World(KeepaAnswer(u), AllGood.audit, AllGood.rewrite)

InitSubstitute ==
    /\ identifier \in SubstituteLines
    /\ call = NoCall
    /\ ids_input = << >>
    /\ env \in Upstreams
    /\ UiInit

BatchLineWithKeepa ==
    \E r \in {LoopBody(identifier, KeepaWorld(env), KEYWORDS, CATEGORY, AUDIENCE)} :
        /\ call' = [fn |-> "batch_line_keepa", arg |-> identifier,
                    out |-> r.out, calls |-> r.calls]
        /\ UNCHANGED <<process, identifier, ids_input, env, UiVars>>

BatchLineWithScraper ==
    \E r \in {LoopBodyWithScraper(identifier, PageAnswer(env), KeepaWorld(env),
                                   KEYWORDS, CATEGORY, AUDIENCE)} :
        /\ call' = [fn |-> "batch_line_scraper", arg |-> identifier,
                    out |-> r.out, calls |-> r.calls]
        /\ UNCHANGED <<process, identifier, ids_input, env, UiVars>>

NextSubstitute == BatchLineWithKeepa \/ BatchLineWithScraper

SpecSubstitute == InitSubstitute /\ [][NextSubstitute]_vars

---------------------------------------------------------------------------
(* Specification of startup: python ui.py in an environment and with a file *)
(* .env; the modules are imported, the page is built, the server is         *)
(* launched and then takes the clicks                                       *)

\* value of a component that does not exist yet
NOT_BUILT == << >>

InitStartup ==
    /\ identifier = << >>
    /\ call = NoCall
    /\ ids_input = <<ASIN_LINE>>
    /\ env = <<AllGood>>
    /\ manual_audit_output = NOT_BUILT
    /\ manual_optimized_output = NOT_BUILT
    /\ batch_output = NOT_BUILT
    /\ ui = NoCallback
    /\ history = [invoked |-> {}, manual |-> NoRun]
    /\ process \in {[pc |-> "start", environ |-> e, dotenv |-> d, error |-> << >>] :
                       e \in Environments, d \in Environments}

\* ui.py line 7, `from agent import ...`: agent.py lines 10-23
ImportAgent ==
    /\ process.pc = "start"
    /\ \E e \in {load_dotenv(process.environ, process.dotenv)} :
          process' = IF Falsy(e["OPENAI_API_KEY"])
                     THEN [process EXCEPT !.pc = "failed", !.environ = e,
                                          !.error = OPENAI_MISSING]
                     ELSE [process EXCEPT !.pc = "agent_imported", !.environ = e]
    /\ UNCHANGED <<identifier, call, ids_input, env, manual_audit_output,
                   manual_optimized_output, batch_output, ui, history>>

\* ui.py line 8, `from keepa_client import ...`: keepa_client.py lines 9-17;
\* the constructor keepa.Keepa may raise
ImportKeepaClient ==
    /\ process.pc = "agent_imported"
    /\ \E e \in {load_dotenv(process.environ, process.dotenv)} :
          \E constructed \in BOOLEAN :
              process' = IF Falsy(e["KEEPA_API_KEY"])
                         THEN [process EXCEPT !.pc = "failed", !.environ = e,
                                              !.error = KEEPA_MISSING]
                         ELSE IF ~constructed
                         THEN [process EXCEPT !.pc = "failed", !.environ = e,
                                              !.error = KEEPA_REJECTED]
                         ELSE [process EXCEPT !.pc = "keepa_imported", !.environ = e]
    /\ UNCHANGED <<identifier, call, ids_input, env, manual_audit_output,
                   manual_optimized_output, batch_output, ui, history>>

\* ui.py lines 185-352: the page, with the first values of its components
BuildUi ==
    /\ process.pc = "keepa_imported"
    /\ process' = [process EXCEPT !.pc = "ui_built"]
    /\ manual_audit_output' = AUDIT_PLACEHOLDER
    /\ manual_optimized_output' = OPTIMIZED_PLACEHOLDER
    /\ batch_output' = BATCH_PLACEHOLDER
    /\ UNCHANGED <<identifier, call, ids_input, env, ui, history>>

\* ui.py lines 355-363: demo.launch
Launch ==
    /\ process.pc = "ui_built"
    /\ process' = [process EXCEPT !.pc = "serving"]
    /\ UNCHANGED <<identifier, call, ids_input, env, manual_audit_output,
                   manual_optimized_output, batch_output, ui, history>>

NextStartup ==
    \/ ImportAgent
    \/ ImportKeepaClient
    \/ BuildUi
    \/ Launch
    \/ ManualClick
    \/ BatchClick
    \/ ManualExportClick
    \/ BatchExportClick

SpecStartup == InitStartup /\ [][NextStartup]_vars

---------------------------------------------------------------------------
(* Claims about the resolvers *)

\* the 10 characters of s from position i on are ASCII letters or digits
AsciiTokenAt(s, i) ==
    /\ i >= 1
    /\ i + AsinLen - 1 <= Len(s)
    /\ \A j \in i..(i + AsinLen - 1) : IsAsciiAlnum(s[j])

\* s is a 10-character ASCII alphanumeric string starting at position i, with
\* nothing but whitespace before and after it
PaddedAsinAt(s, i) ==
    /\ AsciiTokenAt(s, i)
    /\ \A j \in 1..Len(s) : (j < i \/ j > i + AsinLen - 1) => s[j] \in Whitespace

PaddedAsinAtSome(s) == \E i \in 1..Len(s) : PaddedAsinAt(s, i)

\* C1: a 10-character ASCII alphanumeric string S with any whitespace before
\* and after it resolves, with either resolver, to uppercase(S), never to None
C1_PaddedAsinResolves ==
    Resolved =>
        \A i \in 1..Len(call.arg) :
            PaddedAsinAt(call.arg, i) =>
                /\ call.ret # None
                /\ call.ret = upper(SubSeq(call.arg, i, i + AsinLen - 1))

C1_Witness ==
    /\ Resolved
    /\ \E i \in 2..Len(call.arg) :
        /\ PaddedAsinAt(call.arg, i)
        /\ Len(call.arg) > i + AsinLen - 1
        /\ upper(SubSeq(call.arg, i, i + AsinLen - 1)) # SubSeq(call.arg, i, i + AsinLen - 1)
        /\ call.ret = upper(SubSeq(call.arg, i, i + AsinLen - 1))

\* positions of s where /dp/ or /gp/product/ (in any letter case) is followed
\* by 10 ASCII letters or digits, with the position of the token
Segments(s) ==
    {<<i, i + Len(lit)>> : i \in 1..Len(s), lit \in {DP, GP_PRODUCT}}
        \cap {<<i, k>> \in (1..Len(s)) \X (1..Len(s)) :
                /\ \E lit \in {DP, GP_PRODUCT} : LiteralAt(s, i, lit) /\ k = i + Len(lit)
                /\ AsciiTokenAt(s, k)}

TokenOf(s, seg) == SubSeq(s, seg[2], seg[2] + AsinLen - 1)

\* C2: an input that contains a segment /dp/<T> or /gp/product/<T>, T being 10
\* ASCII letters or digits, resolves to the uppercased token of such a segment,
\* whatever precedes or follows it and whatever the letter case
C2_SegmentResolves ==
    Resolved =>
        (Segments(call.arg) # {} =>
            call.ret \in {upper(TokenOf(call.arg, seg)) : seg \in Segments(call.arg)})

\* the alphanumeric run starting at position k of s has at least n characters
RunAtLeast(s, k, n) ==
    /\ k + n - 1 <= Len(s)
    /\ \A j \in k..(k + n - 1) : IsAsciiAlnum(s[j])

\* segments whose token is a whole run (exactly 10 characters), and segments
\* whose marker is followed by a run of 11 characters or more
ExactSegments(s) == {seg \in Segments(s) : ~RunAtLeast(s, seg[2], AsinLen + 1)}
LongSegments(s) == {seg \in Segments(s) : RunAtLeast(s, seg[2], AsinLen + 1)}

\* the trimmed input is one alphanumeric run of 11 characters or more
LongBareRun(s) ==
    Len(strip(s)) > AsinLen /\ RunAtLeast(strip(s), 1, Len(strip(s)))

\* C3: a run of 11 or more alphanumeric characters, be it the whole trimmed
\* input or the run after /dp/ or /gp/product/, is neither accepted nor cut to
\* its first 10 characters: with no other segment in the input the result is None
C3_LongRunRejected ==
    Resolved =>
        ((LongBareRun(call.arg)
            \/ (LongSegments(call.arg) # {} /\ ExactSegments(call.arg) = {}))
         => call.ret = None)

\* C4: with several matching segments the result is the token of the segment
\* that starts leftmost, whatever its kind
C4_LeftmostSegmentWins ==
    Resolved =>
        (Cardinality(Segments(call.arg)) >= 2 =>
            \E seg \in Segments(call.arg) :
                /\ \A other \in Segments(call.arg) : seg[1] <= other[1]
                /\ call.ret = upper(TokenOf(call.arg, seg)))

\* C5: an input that, trimmed, is not exactly 10 ASCII letters or digits and
\* holds no segment resolves to None
C5_NoMatchIsNone ==
    Resolved =>
        ((~PaddedAsinAtSome(call.arg) /\ Segments(call.arg) = {}) => call.ret = None)

---------------------------------------------------------------------------
(* Claims about the batch flow *)

BatchRan == ui.fn = "optimize_from_identifiers_ui"

\* the non-blank lines of the batch text, trimmed, and their number
Kept == KeptLines(ids_input, 1)

\* line k of the kept lines holds no identifier
Unresolvable(k) == extract_asin_from_input(Kept[k].line) = None

\* line k resolves, its product is found and both generation calls answer
Succeeds(k) ==
    /\ ~Unresolvable(k)
    /\ ~env[Kept[k].at].query.raises
    /\ env[Kept[k].at].query.products # << >>
    /\ ~env[Kept[k].at].audit.raises
    /\ ~env[Kept[k].at].rewrite.raises

OnlyLineFails(k) ==
    /\ Unresolvable(k)
    /\ \A j \in 1..Len(Kept) : j # k => Succeeds(j)

Contains(block, atom) == \E i \in 1..Len(block) : block[i] = atom

\* the block starts with the heading of the line
HeadedBy(block, line) ==
    /\ Len(block) > Len(line)
    /\ SubSeq(block, 1, Len(line) + 1) = <<"## ">> \o line

HasGeneratedContent(block) ==
    \/ Contains(block, AUDIT_HEADING)
    \/ Contains(block, OPTIMIZED_HEADING)
    \/ \E i \in 1..Len(ids_input) :
          \/ \E j \in 1..Len(env[i].audit.text) :
                Contains(block, env[i].audit.text[j])
          \/ \E j \in 1..Len(env[i].rewrite.text) :
                Contains(block, env[i].rewrite.text[j])

\* C6: over N non-blank lines of which only line k fails resolution, the output
\* is N blocks in the order of the lines; the block of line k has the error
\* marker and no audit or rewrite content; no external call is made for line
\* k: the calls are a catalog query, an audit and a rewrite for each other line
C6_UnresolvedLineInline ==
    BatchRan =>
        \A k \in 1..Len(Kept) :
            OnlyLineFails(k) =>
                /\ ~ui.out.raised
                /\ Len(ui.results) = Len(Kept)
                /\ batch_output = Join(<<"\n\n">>, ui.results)
                /\ \A i \in 1..Len(Kept) : HeadedBy(ui.results[i], Kept[i].line)
                /\ Contains(ui.results[k], ERROR_MARKER)
                /\ ~HasGeneratedContent(ui.results[k])
                /\ \A i \in 1..Len(Kept) :
                      i # k => /\ ~Contains(ui.results[i], ERROR_MARKER)
                               /\ Contains(ui.results[i], AUDIT_HEADING)
                /\ Len(ui.calls) = 3 * (Len(Kept) - 1)
                /\ \A c \in 1..Len(ui.calls) :
                      /\ ui.calls[c].fn =
                            <<"rewrite_listing", "api.query", "audit_listing">>[(c % 3) + 1]
                      /\ ui.calls[c].fn = "api.query" =>
                            /\ ui.calls[c].asin # None
                            /\ \E i \in 1..Len(Kept) :
                                  /\ i # k
                                  /\ c = 3 * (IF i < k THEN i - 1 ELSE i - 2) + 1
                                  /\ ui.calls[c].asin = upper(Kept[i].line)

C6_Witness ==
    /\ BatchRan
    /\ Len(Kept) = 3
    /\ Len(ids_input) = 3
    /\ OnlyLineFails(2)
    /\ Len(ui.results) = 3
    /\ Contains(ui.results[2], ERROR_MARKER)
    /\ Len(ui.calls) = 6

\* C7: whatever fails while a line is processed (resolution, fetch, audit or
\* rewrite), the batch returns one block per non-blank line and raises nothing
C7_EveryFailureInline ==
    (BatchRan /\ Len(Kept) >= 1) =>
        /\ ~ui.out.raised
        /\ Len(ui.results) = Len(Kept)

---------------------------------------------------------------------------
(* Claims about the export *)

Exported == ui.fn \in {"export_manual_result", "export_batch_result"}

\* C8: an export triggered before any optimization was run raises the
\* user-visible error and writes no file
C8_ExportBeforeRunRaises ==
    (Exported /\ history.invoked = {}) =>
        /\ ui.out.raised
        /\ ui.written = << >>

\* the one file written by the last callback is the single-item export of the
\* audit text a and the rewrite text r
ManualFileOf(a, r) ==
    /\ ~ui.out.raised
    /\ Len(ui.written) = 1
    /\ \E ts \in Timestamps : ui.written[1].name = <<"listing_manual_", ts, ".txt">>
    /\ ui.out.value = ui.written[1].name
    /\ ui.written[1].content =
          <<"=== AUDIT ===", "\n\n">> \o a
              \o <<"\n\n", "=== OPTIMIZED LISTING ===", "\n\n">> \o r \o <<"\n">>

\* the one file written by the last callback holds the displayed batch text
BatchFileWritten ==
    /\ ~ui.out.raised
    /\ Len(ui.written) = 1
    /\ \E ts \in Timestamps : ui.written[1].name = <<"listing_batch_", ts, ".txt">>
    /\ ui.written[1].content = batch_output

\* C9 as stated: after a successful single-item run that returned A and R the
\* single-item export writes one file with the two markers, A and R; the batch
\* export writes the displayed batch text
C9_ExportAfterRun ==
    /\ (ui.fn = "export_manual_result" /\ history.manual # NoRun) =>
          ManualFileOf(history.manual[1][1], history.manual[1][2])
    /\ ui.fn = "export_batch_result" => BatchFileWritten

\* C9 as amended: the same, for a run that returned A and R not both empty
C9_ExportAfterNonEmptyRun ==
    /\ (/\ ui.fn = "export_manual_result"
        /\ history.manual # NoRun
        /\ history.manual[1] # << << >>, << >> >>) =>
          ManualFileOf(history.manual[1][1], history.manual[1][2])
    /\ ui.fn = "export_batch_result" => BatchFileWritten

C9_Witness ==
    /\ ui.fn = "export_manual_result"
    /\ history.manual = << << <<"A1">>, <<"R1">> >> >>
    /\ ManualFileOf(<<"A1">>, <<"R1">>)
    /\ "batch" \in history.invoked

---------------------------------------------------------------------------
(* Claims about the adapters *)

AdapterReturned ==
    /\ call.fn \in {"get_listing_from_keepa", "fetch_listing"}
    /\ ~call.out.raised

\* the error a record carries: none when it has no error key
ErrorOf(rec) == IF "error" \in DOMAIN rec THEN rec.error ELSE << >>

IsSuccess(rec) == rec.asin # << >> /\ rec.asin # None /\ ErrorOf(rec) = << >>
IsFailure(rec) == ErrorOf(rec) # << >>

\* C10: a record returned by an adapter is a success (an identifier, no error)
\* or a failure (an error), and not both; a success carries a 10-character
\* identifier
C10_SuccessOrFailure ==
    AdapterReturned =>
        /\ IsSuccess(call.out.value) \/ IsFailure(call.out.value)
        /\ ~(IsSuccess(call.out.value) /\ IsFailure(call.out.value))
        /\ IsSuccess(call.out.value) => Len(call.out.value.asin) = AsinLen

C10_Witness ==
    /\ AdapterReturned
    /\ call.fn = "fetch_listing"
    /\ IsFailure(call.out.value)
    /\ call.out.value.asin = << >>

---------------------------------------------------------------------------
(* Claims about the substitution of the adapters *)

BatchLineRan == call.fn \in {"batch_line_keepa", "batch_line_scraper"}

\* the block of the line with the other adapter, for the same upstream outcome
BlockWithOtherAdapter ==
    IF call.fn = "batch_line_keepa"
    THEN LoopBodyWithScraper(call.arg, PageAnswer(env), KeepaWorld(env),
                             KEYWORDS, CATEGORY, AUDIENCE).out
    ELSE LoopBody(call.arg, KeepaWorld(env), KEYWORDS, CATEGORY, AUDIENCE).out

\* C11: for the same line and the same upstream outcome the loop body gives
\* the same block with get_listing_from_keepa and with fetch_listing
C11_AdaptersSubstitutable ==
    BatchLineRan => call.out = BlockWithOtherAdapter

---------------------------------------------------------------------------
(* Claims about startup *)

\* the value the process reads for a credential: that of its environment, or
\* that of the file .env when the environment does not have the variable
Credential(k) == load_dotenv(process.environ, process.dotenv)[k]

CredentialMissing(k) == Credential(k) = None \/ Credential(k) = << >>

UiBuilt ==
    \/ process.pc \in {"ui_built", "serving"}
    \/ manual_audit_output # NOT_BUILT
    \/ manual_optimized_output # NOT_BUILT
    \/ batch_output # NOT_BUILT

\* C12: when a credential is absent or empty, the process does not get past
\* the import that reads it, where it stops with the error of that
\* credential: the page is never built, the server never serves and no click
\* is ever taken
C12_StartupFailsWithoutCredentials ==
    /\ CredentialMissing("OPENAI_API_KEY") =>
          /\ process.pc \in {"start", "failed"}
          /\ process.pc = "failed" => process.error = OPENAI_MISSING
    /\ CredentialMissing("KEEPA_API_KEY") =>
          /\ process.pc \in {"start", "agent_imported", "failed"}
          /\ (process.pc = "failed" /\ ~CredentialMissing("OPENAI_API_KEY")) =>
                process.error = KEEPA_MISSING
    /\ (CredentialMissing("OPENAI_API_KEY") \/ CredentialMissing("KEEPA_API_KEY")) =>
          /\ ~UiBuilt
          /\ ui = NoCallback
          /\ history.invoked = {}

C12_Witness ==
    /\ process.pc = "failed"
    /\ process.error = KEEPA_MISSING
    /\ process.environ["KEEPA_API_KEY"] = << >>
    /\ ~CredentialMissing("OPENAI_API_KEY")
    /\ ~UiBuilt

---------------------------------------------------------------------------
(* Claims about the generation calls in the two flows *)

ManualRan == ui.fn = "optimize_manual_ui"

\* what the batch has for each kept line: the line, the identifier it
\* resolves to and the answers of the services for it
LineViews ==
    The({[k \in 1..Len(kept) |->
             [line |-> kept[k].line,
              asin |-> extract_asin_from_input(kept[k].line),
              w |-> env[kept[k].at]]]
         : kept \in {Kept}})

\* the catalog has the product of line k of the view v
Fetched(v, k) ==
    /\ v[k].asin # None
    /\ ~v[k].w.query.raises
    /\ v[k].w.query.products # << >>

\* a generation call made for line k raises
GenerationFails(v, k) ==
    /\ Fetched(v, k)
    /\ v[k].w.audit.raises \/ v[k].w.rewrite.raises

FirstGenerationFailure(v, k) ==
    /\ GenerationFails(v, k)
    /\ \A j \in 1..(k - 1) : ~GenerationFails(v, j)

\* the last line the loop gets to: the first one with a generation call that
\* raises, the last line if there is none
LastReached(v) ==
    IF \E k \in 1..Len(v) : GenerationFails(v, k)
    THEN Min({k \in 1..Len(v) : GenerationFails(v, k)})
    ELSE Len(v)

\* external calls made for line k when it is processed: none for a line with
\* no identifier, the query, the audit unless the query failed, the rewrite
\* unless the audit failed
LineCalls(v, k) ==
    IF v[k].asin = None THEN 0
    ELSE IF ~Fetched(v, k) THEN 1
    ELSE IF v[k].w.audit.raises THEN 2
    ELSE 3

RECURSIVE CallsUpTo(_, _)
CallsUpTo(v, k) == IF k = 0 THEN 0 ELSE CallsUpTo(v, k - 1) + LineCalls(v, k)

\* the displayed values are those of the last single-item run that returned
ManualOutputsKept ==
    /\ manual_audit_output =
          IF history.manual = NoRun THEN AUDIT_PLACEHOLDER ELSE history.manual[1][1]
    /\ manual_optimized_output =
          IF history.manual = NoRun THEN OPTIMIZED_PLACEHOLDER
          ELSE history.manual[1][2]

\* positions after position n of the calls of a function among the calls of
\* the last callback
CallsToAfter(fn, n) == {c \in (n + 1)..Len(ui.calls) : ui.calls[c].fn = fn}

\* C13: an error of the audit or the rewrite call leaves optimize_manual_ui
\* and optimize_from_identifiers_ui as that error; the failing call was made
\* once and is the last call made; the batch made no call for a later line
\* and returned none of the blocks it had built for the earlier lines
C13_GenerationErrorPropagates ==
    /\ (ManualRan /\ ui.answers.audit.raises) =>
          /\ ui.out = Raised(ui.answers.audit.exc)
          /\ Len(ui.calls) = 1
          /\ ui.calls[1].fn = "audit_listing"
          /\ ManualOutputsKept
    /\ (ManualRan /\ ~ui.answers.audit.raises /\ ui.answers.rewrite.raises) =>
          /\ ui.out = Raised(ui.answers.rewrite.exc)
          /\ Len(ui.calls) = 2
          /\ ui.calls[1].fn = "audit_listing"
          /\ ui.calls[2].fn = "rewrite_listing"
          /\ ManualOutputsKept
    /\ BatchRan =>
          \A v \in {LineViews} : \A k \in 1..Len(v) :
              FirstGenerationFailure(v, k) =>
                  /\ ui.out = Raised(GenRaises.exc)
                  /\ batch_output = BATCH_PLACEHOLDER
                  /\ Len(ui.results) = k - 1
                  /\ Len(ui.calls) = CallsUpTo(v, k)
                  /\ ui.calls[Len(ui.calls)].fn =
                        (IF v[k].w.audit.raises THEN "audit_listing"
                         ELSE "rewrite_listing")
                  /\ Cardinality(CallsToAfter("audit_listing", CallsUpTo(v, k - 1))) = 1
                  /\ Cardinality(CallsToAfter("rewrite_listing", CallsUpTo(v, k - 1)))
                        = (IF v[k].w.audit.raises THEN 0 ELSE 1)

C13_Witness ==
    /\ BatchRan
    /\ Len(Kept) = 3
    /\ Succeeds(1)
    /\ FirstGenerationFailure(LineViews, 2)
    /\ ~env[Kept[2].at].audit.raises
    /\ Succeeds(3)
    /\ ui.out.raised
    /\ Len(ui.results) = 1
    /\ Len(ui.calls) = 6
    /\ "manual" \in history.invoked

---------------------------------------------------------------------------
(* Claims about fetch failures and the order of the calls in the batch *)

\* line k resolves and its fetch fails: the query raises or finds nothing
FetchFails(v, k) == v[k].asin # None /\ ~Fetched(v, k)

\* the message of the error get_listing_from_keepa raises for line k
FetchError(v, k) ==
    IF v[k].w.query.raises THEN v[k].w.query.exc
    ELSE <<"Keepa returned no product for ASIN ">> \o v[k].asin

\* the calls recorded for line k are, in this order, the query, the audit and
\* the rewrite, as far as the line got
LineCallsInOrder(v, k) ==
    \A before \in {CallsUpTo(v, k - 1)} : \A c \in 1..LineCalls(v, k) :
        /\ before + c <= Len(ui.calls)
        /\ ui.calls[before + c].fn =
              <<"api.query", "audit_listing", "rewrite_listing">>[c]
        /\ c = 1 => ui.calls[before + c].asin = v[k].asin

\* C14: a line whose fetch fails (nothing found, or the query raises) gets an
\* error block with the message of the failure; the only call made for it is
\* the query; the loop goes on with the lines after it, in order
C14_FetchFailureInline ==
    BatchRan =>
        \A v \in {LineViews} : \A last \in {LastReached(v)} :
            /\ Len(ui.calls) = CallsUpTo(v, last)
            /\ \A k \in 1..last :
                  FetchFails(v, k) =>
                      /\ Len(ui.results) >= k
                      /\ ui.results[k] = ErrorBlock(v[k].line, FetchError(v, k))
                      /\ Contains(ui.results[k], ERROR_MARKER)
                      /\ ~HasGeneratedContent(ui.results[k])
                      /\ LineCalls(v, k) = 1
                      /\ \A j \in k..last : LineCallsInOrder(v, j)
                      /\ \A j \in (k + 1)..last :
                            ~GenerationFails(v, j) =>
                                /\ Len(ui.results) >= j
                                /\ HeadedBy(ui.results[j], v[j].line)
                      /\ (last = Len(v) /\ ~GenerationFails(v, last)) =>
                            /\ ~ui.out.raised
                            /\ Len(ui.results) = Len(v)
                            /\ batch_output = Join(<<"\n\n">>, ui.results)

C14_Witness ==
    /\ BatchRan
    /\ Len(Kept) = 3
    /\ FetchFails(LineViews, 1) /\ ~env[Kept[1].at].query.raises
    /\ FetchFails(LineViews, 2) /\ env[Kept[2].at].query.raises
    /\ Succeeds(3)
    /\ ~ui.out.raised
    /\ Len(ui.results) = 3
    /\ Len(ui.calls) = 5
    /\ Contains(ui.results[3], AUDIT_HEADING)

\* the calls of the batch are those of the lines the loop gets to, line after
\* line: for each line the query (if the line has an identifier), then the
\* audit (if the listing was fetched), then the rewrite (if the audit
\* returned), which is handed the audit text of that line
BatchCallsSequential(v, last) ==
    /\ Len(ui.calls) = CallsUpTo(v, last)
    /\ \A k \in 1..last :
          /\ LineCallsInOrder(v, k)
          /\ LineCalls(v, k) = 3 =>
                ui.calls[CallsUpTo(v, k)].audit_summary = v[k].w.audit.text

\* the single-item run calls the audit, then, when the audit returned, the
\* rewrite, which is handed the audit text
ManualCallsSequential ==
    ManualRan =>
        /\ Len(ui.calls) = (IF ui.answers.audit.raises THEN 1 ELSE 2)
        /\ ui.calls[1].fn = "audit_listing"
        /\ Len(ui.calls) = 2 =>
              /\ ui.calls[2].fn = "rewrite_listing"
              /\ ui.calls[2].audit_summary = ui.answers.audit.text

\* C15 as stated: the calls are sequential and in the order of the lines, and
\* every line of the batch gets exactly one audit call and one rewrite call
C15_OneAuditOneRewritePerLine ==
    /\ ManualCallsSequential
    /\ BatchRan =>
          \A v \in {LineViews} :
              /\ BatchCallsSequential(v, LastReached(v))
              /\ Cardinality(CallsToAfter("audit_listing", 0)) = Len(v)
              /\ Cardinality(CallsToAfter("rewrite_listing", 0)) = Len(v)

\* C15 as amended: the calls are sequential and in the order of the lines; a
\* line the loop gets to has at most one query, one audit call if its listing
\* was fetched and one rewrite call, with the audit text of that line, if the
\* audit returned; the single-item run calls the rewrite after the audit, with
\* its text
C15_CallsSequential ==
    /\ ManualCallsSequential
    /\ BatchRan =>
          \A v \in {LineViews} : \A last \in {LastReached(v)} :
              /\ BatchCallsSequential(v, last)
              /\ Cardinality(CallsToAfter("api.query", 0)) <= last
              /\ Cardinality(CallsToAfter("audit_listing", 0))
                    = Cardinality({k \in 1..last : Fetched(v, k)})
              /\ Cardinality(CallsToAfter("rewrite_listing", 0))
                    = Cardinality({k \in 1..last :
                                     Fetched(v, k) /\ ~v[k].w.audit.raises})

C15_Witness ==
    /\ BatchRan
    /\ Len(Kept) = 3
    /\ \A k \in 1..3 : Succeeds(k)
    /\ env[Kept[1].at].audit.text # env[Kept[2].at].audit.text
    /\ Len(ui.calls) = 9
    /\ ui.calls[3].audit_summary = env[Kept[1].at].audit.text
    /\ ui.calls[6].audit_summary = env[Kept[2].at].audit.text
    /\ "manual" \in history.invoked

---------------------------------------------------------------------------
(* Claims about the fields of a fetched record *)

\* get_listing_from_keepa was called with an input that holds an identifier
\* and the catalog found a product
KeepaFound ==
    /\ call.fn = "get_listing_from_keepa"
    /\ extract_asin_from_input(call.arg) # None
    /\ ~call.answer.raises
    /\ call.answer.products # << >>

\* fetch_listing was called with an input that holds an identifier and got a
\* response
ScraperAnswered ==
    /\ call.fn = "fetch_listing"
    /\ extract_asin(call.arg) # None
    /\ ~call.answer.raises

\* a field the source provides keeps its value, any other is empty
ProvidedOrEmpty(source, key) == IF key \in source.has THEN source[key] ELSE << >>

\* the spans of the page that are bullets: not empty, not the artifact
Usable(spans) == {i \in 1..Len(spans) : spans[i] # << >> /\ ~HasArtifact(spans[i])}

\* C16: each of title, bullets and description of a fetched record has the
\* value the source provides for it and is empty when the source provides
\* none, whatever the other two are; the record is returned, not raised, and
\* carries no error, also when all three are empty
C16_FieldsDefaultIndependently ==
    /\ KeepaFound =>
          /\ ~call.out.raised
          /\ call.out.value.asin = extract_asin_from_input(call.arg)
          /\ call.out.value.title = ProvidedOrEmpty(call.answer.products[1], "title")
          /\ call.out.value.bullets =
                ProvidedOrEmpty(call.answer.products[1], "features")
          /\ call.out.value.description =
                ProvidedOrEmpty(call.answer.products[1], "description")
          /\ ErrorOf(call.out.value) = << >>
    /\ (ScraperAnswered /\ call.answer.status_code = "200") =>
          /\ ~call.out.raised
          /\ call.out.value.asin = extract_asin(call.arg)
          /\ call.out.value.title = ProvidedOrEmpty(call.answer.page, "productTitle")
          /\ (call.out.value.bullets = << >>) <=> (Usable(call.answer.page.spans) = {})
          /\ \A i \in Usable(call.answer.page.spans) :
                \A j \in 1..Len(call.answer.page.spans[i]) :
                    Contains(call.out.value.bullets, call.answer.page.spans[i][j])
          /\ call.out.value.description =
                (IF "productDescription" \in call.answer.page.has
                 THEN call.answer.page.productDescription
                 ELSE ProvidedOrEmpty(call.answer.page, "bookDescription_feature_div"))
          /\ ErrorOf(call.out.value) = << >>

C16_Witness ==
    /\ KeepaFound
    /\ call.answer.products[1].has = {}
    /\ ~call.out.raised
    /\ call.out.value.title = << >>
    /\ call.out.value.bullets = << >>
    /\ call.out.value.description = << >>
    /\ ErrorOf(call.out.value) = << >>

\* C17: fetch_listing makes one GET; a response with a status other than 200
\* gives, whatever its body holds, a returned record with empty title, bullets
\* and description and an error that names the status; a response with status
\* 200 gives a record with an empty error
C17_Non200IsErrorRecord ==
    ScraperAnswered =>
        /\ Len(call.calls) = 1
        /\ call.calls[1].fn = "requests.get"
        /\ ~call.out.raised
        /\ call.answer.status_code # "200" =>
              /\ call.out.value.title = << >>
              /\ call.out.value.bullets = << >>
              /\ call.out.value.description = << >>
              /\ Contains(call.out.value.error, "HTTP ")
              /\ Contains(call.out.value.error, call.answer.status_code)
        /\ call.answer.status_code = "200" => call.out.value.error = << >>

C17_Witness ==
    /\ ScraperAnswered
    /\ call.answer.status_code = "503"
    /\ call.answer.page.has = PageKeys
    /\ call.answer.page.spans # << >>
    /\ call.out.value.title = << >>
    /\ Contains(call.out.value.error, "503")

---------------------------------------------------------------------------
(* Claim about the two resolvers *)

\* the result of the resolver that was not called, on the same input
OtherResolver ==
    IF call.fn = "extract_asin" THEN extract_asin_from_input(call.arg)
    ELSE extract_asin(call.arg)

\* C18: extract_asin_from_input and extract_asin return the same result for
\* every input
C18_ResolversAgree ==
    Resolved => call.ret = OtherResolver

============================================================================
